---------------------------- MODULE Spec2Model ----------------------------
(***************************************************************************)
(* Habit tracker (src/habit-tracker/main.py): the habit engine             *)
(* (add_habit, mark_done, unmark_habit, delete_habit, reset_daily,         *)
(* ensure_defaults), the store (load_habits, save_habits) and the shell    *)
(* (OceanTrackerApp: its start and the handlers of its buttons).           *)
(*                                                                         *)
(* Representation of the Python values:                                    *)
(*   - a habit name (a key of the store) is a sequence of one-character    *)
(*     strings, so that str.strip and str.startswith are computed;         *)
(*   - an ISO date string "YYYY-MM-DD" is the triple <<YYYY, MM, DD>>; a   *)
(*     datetime.date is its proleptic Gregorian ordinal;                   *)
(*   - None is the empty tuple;                                            *)
(*   - a value of the store is tagged with its Python type: a dict         *)
(*     [type |-> "dict", items |-> f], f a function from field names to    *)
(*     field values, or an int [type |-> "int", value |-> n];              *)
(*   - a raised exception is the "raised" field of an operation's result   *)
(*     ("None" when the call returned).                                    *)
(***************************************************************************)
EXTENDS Integers, Sequences, FiniteSets, TLC

VARIABLES
    habits,     \* the live store: the dict the caller holds
    file,       \* the persisted document at DEFAULT_FILE
    clock,      \* the wall-clock date (a date ordinal)
    call,       \* the last call (a history variable; see Called)
    marked,     \* the days of the completions (a history variable; see Marked)
    app         \* the application: "off", or "on" once OceanTrackerApp is built

vars == <<habits, file, clock, call, marked, app>>

----------------------------------------------------------------------------
(* Bounds of the model *)

\* the calendar window holds the days FirstDay .. FirstDay + MaxDay
MaxDay == 2

----------------------------------------------------------------------------
(* Python values *)

None == <<>>

PyDict(f) == [type |-> "dict", items |-> f]

PyInt(n) == [type |-> "int", value |-> n]

EmptyDict == <<>>

\* d[k] = v
Put(d, k, v) == [x \in (DOMAIN d) \cup {k} |-> IF x = k THEN v ELSE d[x]]

\* del d[k]
Del(d, k) == [x \in (DOMAIN d) \ {k} |-> d[x]]

\* d.get(k, default)
Get(d, k, default) == IF k \in DOMAIN d THEN d[k] ELSE default

\* the truth value of a str-or-None: None and the empty string are false
Truthy(v) == v # <<>>

----------------------------------------------------------------------------
(* datetime.date: ISO strings and ordinals *)

IsLeap(y) == (y % 4 = 0) /\ ((y % 100 # 0) \/ (y % 400 = 0))

DaysInMonth(y, m) ==
    CASE m \in {1, 3, 5, 7, 8, 10, 12} -> 31
      [] m \in {4, 6, 9, 11} -> 30
      [] OTHER -> IF IsLeap(y) THEN 29 ELSE 28

RECURSIVE DaysBeforeMonth(_, _)
DaysBeforeMonth(y, m) ==
    IF m = 1 THEN 0 ELSE DaysBeforeMonth(y, m - 1) + DaysInMonth(y, m - 1)

DaysBeforeYear(y) ==
    (y - 1) * 365 + ((y - 1) \div 4) - ((y - 1) \div 100) + ((y - 1) \div 400)

\* datetime.date.fromisoformat(s).toordinal()
fromisoformat(s) == DaysBeforeYear(s[1]) + DaysBeforeMonth(s[1], s[2]) + s[3]

\* the first day of the calendar window, over a leap day
FirstDay == <<2024, 2, 28>>

\* the days of the window, as ordinals
Days == fromisoformat(FirstDay) .. (fromisoformat(FirstDay) + MaxDay)

\* the ISO string of the day after that of s
NextDate(s) ==
    IF s[3] < DaysInMonth(s[1], s[2]) THEN <<s[1], s[2], s[3] + 1>>
    ELSE IF s[2] < 12 THEN <<s[1], s[2] + 1, 1>>
    ELSE <<s[1] + 1, 1, 1>>

RECURSIVE DateAfter(_, _)
DateAfter(s, n) == IF n = 0 THEN s ELSE DateAfter(NextDate(s), n - 1)

\* datetime.date.isoformat(), for a day of the window
isoformat(day) == DateAfter(FirstDay, day - fromisoformat(FirstDay))

\* the ISO strings of the days of the window
IsoDates == {isoformat(day) : day \in Days}

----------------------------------------------------------------------------
(* str *)

Whitespace == {" ", "\t", "\n"}

RECURSIVE lstrip(_)
lstrip(s) ==
    IF s # <<>> /\ Head(s) \in Whitespace THEN lstrip(Tail(s)) ELSE s

RECURSIVE rstrip(_)
rstrip(s) ==
    IF s # <<>> /\ s[Len(s)] \in Whitespace
    THEN rstrip(SubSeq(s, 1, Len(s) - 1))
    ELSE s

\* str.strip()
strip(s) == rstrip(lstrip(s))

\* str.startswith(c), c one character
startswith(s, c) == s # <<>> /\ Head(s) = c

META == <<"_", "m", "e", "t", "a">>

DEFAULT_HABITS == <<
    <<"D","r","i","n","k"," ","W","a","t","e","r">>,
    <<"R","e","a","d"," ","2","0"," ","m","i","n","u","t","e","s">>,
    <<"E","x","e","r","c","i","s","e"," ","1","0"," ","m","i","n","u","t","e","s">>,
    <<"M","e","d","i","t","a","t","e">>,
    <<"J","o","u","r","n","a","l">>,
    <<"S","l","e","e","p"," ","E","a","r","l","y">>,
    <<"C","o","d","i","n","g"," ","p","r","a","c","t","i","c","e">> >>

----------------------------------------------------------------------------
(* The habit engine. Each operator is the function of the same name: its   *)
(* result holds the exception raised ("None": it returned) and the store   *)
(* as the call leaves it. `now` is what datetime.date.today() returns.     *)

Raise(e, hs) == [raised |-> e, habits |-> hs]

Return(hs) == [raised |-> "None", habits |-> hs]

\* add_habit creating the record with the streak of a first completion
add_habit_starts_at_one(hs, name) ==
    LET n == strip(name) IN
    IF n = <<>> THEN Raise("ValueError", hs)
    ELSE IF n \in DOMAIN hs THEN Raise("ValueError", hs)
    ELSE Return(Put(hs, n, PyDict([done |-> FALSE, streak |-> 1, last_done |-> None])))

\* add_habit without the check of line 55: an existing record is overwritten
add_habit_overwrites(hs, name) ==
    LET n == strip(name) IN
    IF n = <<>> THEN Raise("ValueError", hs)
    ELSE Return(Put(hs, n, PyDict([done |-> FALSE, streak |-> 0, last_done |-> None])))

\* add_habit without the assignment of line 52: the key is the name as given
add_habit_keeps_whitespace(hs, name) ==
    IF strip(name) = <<>> THEN Raise("ValueError", hs)
    ELSE IF strip(name) \in DOMAIN hs THEN Raise("ValueError", hs)
    ELSE Return(Put(hs, name, PyDict([done |-> FALSE, streak |-> 0, last_done |-> None])))


add_habit(hs, name) ==
    LET n == strip(name) IN
    IF n = <<>> THEN Raise("ValueError", hs)
    ELSE IF n \in DOMAIN hs THEN Raise("ValueError", hs)
    ELSE Return(Put(hs, n, PyDict([done |-> FALSE, streak |-> 0, last_done |-> None])))

\* mark_streak with < for == today - 1 in line 70: any earlier day continues the streak
mark_streak_ignores_gap(info, today) ==
    LET last == Get(info, "last_done", None) IN
    IF Truthy(last)
    THEN IF fromisoformat(last) < fromisoformat(today)
         THEN Put(info, "streak", Get(info, "streak", 0) + 1)
         ELSE IF fromisoformat(last) = fromisoformat(today)
              THEN info
              ELSE Put(info, "streak", 1)
    ELSE Put(info, "streak", 1)

\* mark_streak with the test of line 70 never true: the streak is never added to
mark_streak_never_increments(info, today) ==
    LET last == Get(info, "last_done", None) IN
    IF Truthy(last) /\ fromisoformat(last) = fromisoformat(today)
    THEN info
    ELSE Put(info, "streak", 1)

\* mark_streak without the else of line 75: a gap leaves the streak as it is
mark_streak_keeps_on_gap(info, today) ==
    LET last == Get(info, "last_done", None) IN
    IF Truthy(last)
    THEN IF fromisoformat(last) = fromisoformat(today) - 1
         THEN Put(info, "streak", Get(info, "streak", 0) + 1)
         ELSE info
    ELSE Put(info, "streak", 1)

\* mark_streak with >= for == in line 70: a second completion of the day counts
mark_streak_counts_same_day(info, today) ==
    LET last == Get(info, "last_done", None) IN
    IF Truthy(last)
    THEN IF fromisoformat(last) >= fromisoformat(today) - 1
            /\ fromisoformat(last) <= fromisoformat(today)
         THEN Put(info, "streak", Get(info, "streak", 0) + 1)
         ELSE Put(info, "streak", 1)
    ELSE Put(info, "streak", 1)

\* lines 67-78 of mark_done: the streak of `info` after a completion on `today`
mark_streak(info, today) ==
    LET last == Get(info, "last_done", None) IN
    IF Truthy(last)
    THEN IF fromisoformat(last) = fromisoformat(today) - 1
         THEN Put(info, "streak", Get(info, "streak", 0) + 1)
         ELSE IF fromisoformat(last) = fromisoformat(today)
              THEN info
              ELSE Put(info, "streak", 1)
    ELSE Put(info, "streak", 1)

mark_done(hs, name, today, now) ==
    IF name \notin DOMAIN hs THEN Raise("KeyError", hs)
    ELSE LET t == IF today = None THEN isoformat(now) ELSE today
             v == hs[name]
         IN IF v.type # "dict" THEN Raise("AttributeError", hs)
            ELSE LET info == Put(Put(mark_streak(v.items, t), "done", TRUE), "last_done", t)
                 IN Return(Put(hs, name, PyDict(info)))

\* unmark_habit that also takes the completion back out of the streak
unmark_habit_reverts(hs, name) ==
    IF name \notin DOMAIN hs THEN Raise("KeyError", hs)
    ELSE IF hs[name].type # "dict" THEN Raise("TypeError", hs)
    ELSE LET info == hs[name].items
             s == Get(info, "streak", 0)
         IN Return(Put(hs, name, PyDict(Put(Put(info, "done", FALSE), "streak",
                                            IF Get(info, "done", FALSE) /\ s > 0
                                            THEN s - 1 ELSE s))))


unmark_habit(hs, name) ==
    IF name \notin DOMAIN hs THEN Raise("KeyError", hs)
    ELSE IF hs[name].type # "dict" THEN Raise("TypeError", hs)
    ELSE Return(Put(hs, name, PyDict(Put(hs[name].items, "done", FALSE))))

\* delete_habit as habits.pop(name, None): an unknown name is not an error
delete_habit_silent(hs, name) ==
    IF name \notin DOMAIN hs THEN Return(hs) ELSE Return(Del(hs, name))


delete_habit(hs, name) ==
    IF name \notin DOMAIN hs THEN Raise("KeyError", hs)
    ELSE Return(Del(hs, name))

\* reset_daily without the loop of lines 105-109: the date is stamped, the flags stay
reset_daily_keeps_done(hs, today, now) ==
    LET t == IF today = None THEN isoformat(now) ELSE today
        meta == Get(hs, META, PyDict(EmptyDict))
    IN IF meta.type # "dict" THEN Raise("AttributeError", hs)
       ELSE IF Get(meta.items, "last_reset", None) = t THEN Return(hs)
       ELSE Return(Put(hs, META, PyDict([last_reset |-> t])))

\* reset_daily without the guard of lines 102-103
reset_daily_unguarded(hs, today, now) ==
    LET t == IF today = None THEN isoformat(now) ELSE today
        meta == Get(hs, META, PyDict(EmptyDict))
    IN IF meta.type # "dict" THEN Raise("AttributeError", hs)
       ELSE Return(
           [k \in (DOMAIN hs) \cup {META} |->
               IF k = META THEN PyDict([last_reset |-> t])
               ELSE IF hs[k].type = "dict"
                    THEN PyDict(Put(hs[k].items, "done", FALSE))
                    ELSE hs[k]])

\* reset_daily that also clears the streak of a habit not done that day
reset_daily_breaks_streak(hs, today, now) ==
    LET t == IF today = None THEN isoformat(now) ELSE today
        meta == Get(hs, META, PyDict(EmptyDict))
    IN IF meta.type # "dict" THEN Raise("AttributeError", hs)
       ELSE IF Get(meta.items, "last_reset", None) = t THEN Return(hs)
       ELSE Return(
           [k \in (DOMAIN hs) \cup {META} |->
               IF k = META THEN PyDict([last_reset |-> t])
               ELSE IF hs[k].type = "dict"
                    THEN PyDict(Put(Put(hs[k].items, "done", FALSE), "streak",
                                    IF Get(hs[k].items, "done", FALSE)
                                    THEN Get(hs[k].items, "streak", 0) ELSE 0))
                    ELSE hs[k]])


reset_daily(hs, today, now) ==
    LET t == IF today = None THEN isoformat(now) ELSE today
        meta == Get(hs, META, PyDict(EmptyDict))
    IN IF meta.type # "dict" THEN Raise("AttributeError", hs)
       ELSE IF Get(meta.items, "last_reset", None) = t THEN Return(hs)
       ELSE Return(
           [k \in (DOMAIN hs) \cup {META} |->
               IF k = META THEN PyDict([last_reset |-> t])
               ELSE IF hs[k].type = "dict"
                    THEN PyDict(Put(hs[k].items, "done", FALSE))
                    ELSE hs[k]])


\* the keys the listing and the seeding count as habits (lines 116 and 341)
user_names(hs) == {k \in DOMAIN hs : ~startswith(k, "_")}

\* lines 118-122: add_habit for each name of ds, a ValueError swallowed
RECURSIVE add_all(_, _)
add_all(hs, ds) ==
    IF ds = <<>> THEN hs ELSE add_all(add_habit(hs, Head(ds)).habits, Tail(ds))

\* `saved`: the call reached save_habits(habits), which writes DEFAULT_FILE
ensure_defaults(hs, now) ==
    IF user_names(hs) = {}
    THEN [raised |-> "None",
          habits |-> Put(add_all(hs, DEFAULT_HABITS), META,
                         PyDict([last_reset |-> isoformat(now)])),
          saved |-> TRUE]
    ELSE [raised |-> "None", habits |-> hs, saved |-> FALSE]

----------------------------------------------------------------------------
(* The store: the persisted document is absent or holds a text; a text is  *)
(* not UTF-8 (Undecodable), not JSON (Garbage) or a JSON value, kept as    *)
(* its syntax tree.                                                        *)

NoFile == [exists |-> FALSE]

FileOf(text) == [exists |-> TRUE, text |-> text]

\* a text that is not JSON
Garbage == [j |-> "garbage"]

\* bytes that are not UTF-8: open(..., encoding="utf-8") cannot decode them
Undecodable == [j |-> "undecodable"]

JNull == [j |-> "null"]

JTrue == [j |-> "true"]

JFalse == [j |-> "false"]

JNumber(n) == [j |-> "number", n |-> n]

JString(s) == [j |-> "string", s |-> s]

JArray(elems) == [j |-> "array", elems |-> elems]

\* members: a sequence of <<key, value>> pairs, in the order of the text
JObject(members) == [j |-> "object", members |-> members]

RECURSIVE SetToSeq(_)
SetToSeq(S) ==
    IF S = {} THEN <<>>
    ELSE LET x == CHOOSE y \in S : TRUE IN <<x>> \o SetToSeq(S \ {x})

\* EncodeField writing str(v) for a None
EncodeField_stringifies(k, v) ==
    CASE k = "done" -> IF v THEN JTrue ELSE JFalse
      [] k = "streak" -> JNumber(v)
      [] OTHER -> JString(IF v = None THEN <<"N", "o", "n", "e">> ELSE v)

\* json.dump of a field of a record: a bool, an int, a str or None
EncodeField(k, v) ==
    CASE k = "done" -> IF v THEN JTrue ELSE JFalse
      [] k = "streak" -> JNumber(v)
      [] OTHER -> IF v = None THEN JNull ELSE JString(v)

\* json.dump of a value of the store
EncodeValue(v) ==
    IF v.type = "dict"
    THEN LET ks == SetToSeq(DOMAIN v.items)
         IN JObject([i \in 1..Len(ks) |-> <<ks[i], EncodeField(ks[i], v.items[ks[i]])>>])
    ELSE JNumber(v.value)

\* json.dump(habits, f, ensure_ascii=False, indent=2)
dump(hs) ==
    LET ks == SetToSeq(DOMAIN hs)
    IN JObject([i \in 1..Len(ks) |-> <<ks[i], EncodeValue(hs[ks[i]])>>])

\* the value json.load gives a key of an object: that of its last member
Member(members, k) ==
    LET i == CHOOSE i \in 1..Len(members) :
                 /\ members[i][1] = k
                 /\ \A n \in (i + 1)..Len(members) : members[n][1] # k
    IN members[i][2]

Keys(members) == {members[i][1] : i \in 1..Len(members)}

\* json.load of a field of a record
DecodeField(jv) ==
    CASE jv.j = "true" -> TRUE
      [] jv.j = "false" -> FALSE
      [] jv.j = "null" -> None
      [] jv.j = "number" -> jv.n
      [] jv.j = "string" -> jv.s

\* json.load of a value of the top-level object
DecodeValue(jv) ==
    IF jv.j = "object"
    THEN PyDict([k \in Keys(jv.members) |-> DecodeField(Member(jv.members, k))])
    ELSE PyInt(jv.n)

\* json.load of an object
load(jv) == [k \in Keys(jv.members) |-> DecodeValue(Member(jv.members, k))]

\* the result of load_habits: the exception it lets out and the dict it returns
Loaded(hs) == [raised |-> "None", value |-> hs]

\* load_habits without FileNotFoundError in the except of line 44
load_habits_uncaught(f) ==
    IF ~f.exists THEN [raised |-> "FileNotFoundError", value |-> None]
    ELSE IF f.text.j = "undecodable"
         THEN [raised |-> "UnicodeDecodeError", value |-> None]
    ELSE IF f.text.j = "garbage" THEN Loaded(EmptyDict)
    ELSE IF f.text.j # "object" THEN Loaded(EmptyDict)
    ELSE Loaded(load(f.text))


load_habits(f) ==
    IF ~f.exists THEN Loaded(EmptyDict)                  \* FileNotFoundError, caught
    ELSE IF f.text.j = "undecodable"
         THEN [raised |-> "UnicodeDecodeError", value |-> None]
    ELSE IF f.text.j = "garbage" THEN Loaded(EmptyDict)  \* json.JSONDecodeError, caught
    ELSE IF f.text.j # "object" THEN Loaded(EmptyDict)   \* not isinstance(data, dict)
    ELSE Loaded(load(f.text))

save_habits(hs) == FileOf(dump(hs))


----------------------------------------------------------------------------
(* The calls of a client of the engine and the store. `call` records the   *)
(* last call: its name, its `name` argument, the exception it raised, the  *)
(* entry it addressed as it was before the call (None: no such key; for    *)
(* reset_daily and ensure_defaults the _meta entry) and, for reset_daily   *)
(* and load_habits, the keys whose done flag was set before the call.      *)

\* hs.get(k), None for a key hs has not
Entry(hs, k) == Get(hs, k, None)

\* the keys of hs whose record has done set
DoneKeys(hs) ==
    {k \in DOMAIN hs : hs[k].type = "dict" /\ Get(hs[k].items, "done", FALSE)}

Called(op, name, r, entry, flags) ==
    [op |-> op, name |-> name, raised |-> r.raised, entry |-> entry, flags |-> flags]

NoCall == [op |-> "none", name |-> None, raised |-> "None", entry |-> None, flags |-> {}]

\* The history of the completions, kept by the runs that start with
\* marked.recording set: marked.days maps a habit that add_habit created in
\* this run to the days (ordinals) mark_done was applied to it on since.
\* add_habit starts it empty, mark_done adds its `today`, delete_habit ends
\* it, and load_habits, which replaces the store, ends them all.
NoHistory == [recording |-> FALSE, days |-> EmptyDict]

Marked(op, name, r, today) ==
    IF ~marked.recording \/ r.raised # "None" THEN marked
    ELSE LET days == marked.days IN
         [marked EXCEPT !.days =
            CASE op = "add_habit" -> Put(days, strip(name), {})
              [] op = "mark_done" ->
                   IF name \in DOMAIN days
                   THEN Put(days, name, days[name] \cup {fromisoformat(today)})
                   ELSE days
              [] op = "delete_habit" -> Del(days, name)
              [] op = "ensure_defaults" ->
                   [k \in DOMAIN days \cup (DOMAIN r.habits \ (DOMAIN habits \cup {META})) |->
                       IF k \in DOMAIN habits THEN Get(days, k, {}) ELSE {}]
              [] op = "load_habits" -> EmptyDict
              [] OTHER -> days]

AddHabit(name) ==
    LET r == add_habit(habits, name) IN
    /\ habits' = r.habits
    /\ call' = Called("add_habit", name, r, Entry(habits, strip(name)), {})
    /\ marked' = Marked("add_habit", name, r, None)
    /\ UNCHANGED <<file, clock, app>>

MarkDone(name, today) ==
    LET r == mark_done(habits, name, today, clock) IN
    /\ habits' = r.habits
    /\ call' = Called("mark_done", name, r, Entry(habits, name), {})
    /\ marked' = Marked("mark_done", name, r,
                        IF today = None THEN isoformat(clock) ELSE today)
    /\ UNCHANGED <<file, clock, app>>

UnmarkHabit(name) ==
    LET r == unmark_habit(habits, name) IN
    /\ habits' = r.habits
    /\ call' = Called("unmark_habit", name, r, Entry(habits, name), {})
    /\ UNCHANGED <<file, clock, marked, app>>

DeleteHabit(name) ==
    LET r == delete_habit(habits, name) IN
    /\ habits' = r.habits
    /\ call' = Called("delete_habit", name, r, Entry(habits, name), {})
    /\ marked' = Marked("delete_habit", name, r, None)
    /\ UNCHANGED <<file, clock, app>>

ResetDaily(today) ==
    LET r == reset_daily(habits, today, clock) IN
    /\ habits' = r.habits
    /\ call' = Called("reset_daily", None, r, Entry(habits, META), DoneKeys(habits))
    /\ UNCHANGED <<file, clock, marked, app>>

EnsureDefaults ==
    LET r == ensure_defaults(habits, clock) IN
    /\ habits' = r.habits
    /\ file' = IF r.saved THEN save_habits(r.habits) ELSE file
    /\ call' = Called("ensure_defaults", None, r, Entry(habits, META), {})
    /\ marked' = Marked("ensure_defaults", None, r, None)
    /\ UNCHANGED <<clock, app>>

SaveHabits ==
    /\ file' = save_habits(habits)
    /\ call' = Called("save_habits", None, Return(habits), None, {})
    /\ UNCHANGED <<habits, clock, marked, app>>

\* habits = load_habits(): the assignment is not reached when the call raises
LoadHabits ==
    LET r == load_habits(file) IN
    /\ habits' = IF r.raised = "None" THEN r.value ELSE habits
    /\ call' = Called("load_habits", None, r, None, DoneKeys(habits))
    /\ marked' = Marked("load_habits", None, r, None)
    /\ UNCHANGED <<file, clock, app>>

----------------------------------------------------------------------------
(* Spec: a client of the engine, as the tests are: it starts from the      *)
(* empty dict and calls add_habit, mark_done, unmark_habit, delete_habit   *)
(* and reset_daily, on one day of the wall clock: habit "a" is marked done  *)
(* with any date, habit "b" with the default date only.                    *)

\* the names add_habit is called with
AddNames == {<<>>, <<" ">>, <<"a">>, <<" ", "a", "\n">>, <<"b">>}

\* the names the other calls are made with (" a\n" is never a key)
KeyNames == {<<"a">>, <<" ", "a", "\n">>, <<"b">>}

\* the `today` the calls are made with: a date, or None for the default
TodayInputs == IsoDates \cup {None}

\* the name and the `today` mark_done is called with
MarkInputs == {p \in KeyNames \X TodayInputs : p[1] = <<"a">> \/ p[2] = None}

Init ==
    /\ habits = EmptyDict
    /\ file = NoFile
    /\ clock = fromisoformat(FirstDay) + 1
    /\ call = NoCall
    /\ marked = NoHistory
    /\ app = "off"

Next ==
    \/ \E name \in AddNames : AddHabit(name)
    \/ \E p \in MarkInputs : MarkDone(p[1], p[2])
    \/ \E name \in KeyNames : UnmarkHabit(name)
    \/ \E name \in KeyNames : DeleteHabit(name)
    \/ \E today \in TodayInputs : ResetDaily(today)

Spec == Init /\ [][Next]_vars

----------------------------------------------------------------------------
(* StoreSpec: a client of the store. The persisted document is, at first,  *)
(* absent or any of Documents; the client loads it, changes one habit     *)
(* (marked done with any date, reset with the default date) and saves.     *)

\* the documents found at the location
Documents ==
    { NoFile,
      FileOf(Undecodable),
      FileOf(Garbage),
      FileOf(JArray(<<JNumber(1)>>)),
      FileOf(JObject(<< <<(<<"a">>), JNumber(5)>> >>)),
      FileOf(JObject(<< <<(<<"a">>), JObject(<< <<"streak", JNumber(3)>> >>)>> >>)) }

StoreInit ==
    /\ habits = EmptyDict
    /\ file \in Documents
    /\ clock = fromisoformat(FirstDay) + 1
    /\ call = NoCall
    /\ marked = NoHistory
    /\ app = "off"

StoreNext ==
    \/ LoadHabits
    \/ SaveHabits
    \/ AddHabit(<<"a">>)
    \/ \E today \in TodayInputs : MarkDone(<<"a">>, today)
    \/ UnmarkHabit(<<"a">>)
    \/ DeleteHabit(<<"a">>)
    \/ ResetDaily(None)

StoreSpec == StoreInit /\ [][StoreNext]_vars

----------------------------------------------------------------------------
(* SeedSpec: a client of the engine that also seeds the store, as the      *)
(* start of the application does, and that uses names beginning with an    *)
(* underscore, the reserved key among them. Habit "a" is marked done with  *)
(* any date, the others with the default date only.                        *)

\* a name add_habit accepts and the listing and the seeding leave out
Hidden == <<"_", "x">>

\* the names add_habit is called with
SeedAddNames == {<<"a">>, Hidden, META}

\* the names the other calls are made with
SeedNames == {<<"a">>, META}

\* the name and the `today` mark_done is called with
SeedMarkInputs == {p \in SeedNames \X TodayInputs : p[1] = <<"a">> \/ p[2] = None}

SeedNext ==
    \/ EnsureDefaults
    \/ \E name \in SeedAddNames : AddHabit(name)
    \/ \E p \in SeedMarkInputs : MarkDone(p[1], p[2])
    \/ \E name \in SeedNames : UnmarkHabit(name)
    \/ \E name \in SeedNames : DeleteHabit(name)
    \/ ResetDaily(None)

SeedSpec == Init /\ [][SeedNext]_vars


----------------------------------------------------------------------------
(* StreakSpec: the client of Spec, keeping the history of the completions  *)
(* and calling mark_done with dates that never go back: a habit is marked  *)
(* done on no day before one it has been marked done on.                   *)

StreakInit ==
    /\ habits = EmptyDict
    /\ file = NoFile
    /\ clock = fromisoformat(FirstDay) + 1
    /\ call = NoCall
    /\ marked = [recording |-> TRUE, days |-> EmptyDict]
    /\ app = "off"

\* mark_done with a `today` that is no earlier than those of the calls before
MarkDoneInOrder(name, today) ==
    /\ \A d \in Get(marked.days, name, {}) :
           d <= fromisoformat(IF today = None THEN isoformat(clock) ELSE today)
    /\ MarkDone(name, today)

StreakNext ==
    \/ \E name \in AddNames : AddHabit(name)
    \/ \E p \in MarkInputs : MarkDoneInOrder(p[1], p[2])
    \/ \E name \in KeyNames : UnmarkHabit(name)
    \/ \E today \in TodayInputs : ResetDaily(today)

StreakSpec == StreakInit /\ [][StreakNext]_vars

----------------------------------------------------------------------------
(* The shell, OceanTrackerApp. Each operator is the handler of the same    *)
(* name: its result holds the exception the handler reports or lets out    *)
(* ("None": none), and the store and the persisted document as it leaves   *)
(* them. `now` is what datetime.date.today() returns.                      *)

Handled(e, hs, f) == [raised |-> e, habits |-> hs, file |-> f]

\* __init__, lines 211-216: load, seed, reset, save
startup(f, now) ==
    LET l == load_habits(f) IN
    IF l.raised # "None" THEN Handled(l.raised, EmptyDict, f)
    ELSE LET e == ensure_defaults(l.value, now)
             f1 == IF e.saved THEN save_habits(e.habits) ELSE f
             r == reset_daily(e.habits, None, now)
         IN IF r.raised # "None" THEN Handled(r.raised, r.habits, f1)
            ELSE Handled("None", r.habits, save_habits(r.habits))

\* _on_add: text is the content of the entry
on_add(hs, f, text) ==
    LET name == strip(text) IN
    IF name = <<>> THEN Handled("None", hs, f)          \* showinfo("Invalid", ...)
    ELSE LET r == add_habit(hs, name) IN
         IF r.raised # "None" THEN Handled(r.raised, r.habits, f)   \* showerror
         ELSE Handled("None", r.habits, save_habits(r.habits))

on_reset_daily(hs, f, now) ==
    LET r == reset_daily(hs, None, now) IN
    IF r.raised # "None" THEN Handled(r.raised, r.habits, f)       \* not caught
    ELSE Handled("None", r.habits, save_habits(r.habits))

\* _on_save_exit: the document it leaves
on_save_exit(hs) == save_habits(hs)

\* _draw_cards, lines 341-343: the names of the cards
draw_cards(hs) == {k \in DOMAIN hs : ~startswith(k, "_")}

\* Card._build, lines 191-196: the label of the button of a card
mark_button(info) ==
    IF info.type = "dict" /\ Get(info.items, "done", FALSE) = TRUE THEN "Undo" ELSE "Done"

\* _handle_mark_done without the save_habits of line 368
handle_mark_done_unsaved(hs, f, name, now) ==
    LET r == mark_done(hs, name, None, now) IN
    Handled(r.raised, r.habits, f)


handle_mark_done(hs, f, name, now) ==
    LET r == mark_done(hs, name, None, now) IN
    IF r.raised # "None" THEN Handled(r.raised, r.habits, f)       \* showerror
    ELSE Handled("None", r.habits, save_habits(r.habits))

handle_unmark(hs, f, name) ==
    LET r == unmark_habit(hs, name) IN
    IF r.raised # "None" THEN Handled(r.raised, r.habits, f)       \* showerror
    ELSE Handled("None", r.habits, save_habits(r.habits))

\* yes: the answer to askyesno("Confirm", ...)
handle_delete(hs, f, name, yes) ==
    IF ~yes THEN Handled("None", hs, f)
    ELSE LET r == delete_habit(hs, name) IN
         IF r.raised # "None" THEN Handled(r.raised, r.habits, f)  \* showerror
         ELSE Handled("None", r.habits, save_habits(r.habits))

\* The events of the application. A card's buttons exist for the names
\* _draw_cards drew, which are those of the store as the last handler left
\* it; the history of the completions is not kept.

\* python main.py: the application is built when __init__ raises nothing
\* (call.flags: the keys whose done flag was set in the document loaded)
Startup ==
    /\ app = "off"
    /\ LET r == startup(file, clock) IN
       /\ habits' = IF r.raised = "None" THEN r.habits ELSE habits
       /\ file' = r.file
       /\ app' = IF r.raised = "None" THEN "on" ELSE "off"
       /\ call' = Called("startup", None, r, None, DoneKeys(load_habits(file).value))
    /\ UNCHANGED <<clock, marked>>

OnAdd(text) ==
    /\ app = "on"
    /\ LET r == on_add(habits, file, text) IN
       /\ habits' = r.habits
       /\ file' = r.file
       /\ call' = Called("on_add", text, r, Entry(habits, strip(text)), {})
    /\ UNCHANGED <<clock, marked, app>>

OnResetDaily ==
    /\ app = "on"
    /\ LET r == on_reset_daily(habits, file, clock) IN
       /\ habits' = r.habits
       /\ file' = r.file
       /\ call' = Called("on_reset_daily", None, r, Entry(habits, META), DoneKeys(habits))
    /\ UNCHANGED <<clock, marked, app>>

OnSaveExit ==
    /\ app = "on"
    /\ file' = on_save_exit(habits)
    /\ app' = "off"
    /\ call' = Called("on_save_exit", None, Return(habits), None, {})
    /\ UNCHANGED <<habits, clock, marked>>

HandleMarkDone(name) ==
    /\ app = "on"
    /\ name \in draw_cards(habits) /\ mark_button(habits[name]) = "Done"
    /\ LET r == handle_mark_done(habits, file, name, clock) IN
       /\ habits' = r.habits
       /\ file' = r.file
       /\ call' = Called("handle_mark_done", name, r, Entry(habits, name), {})
    /\ UNCHANGED <<clock, marked, app>>

HandleUnmark(name) ==
    /\ app = "on"
    /\ name \in draw_cards(habits) /\ mark_button(habits[name]) = "Undo"
    /\ LET r == handle_unmark(habits, file, name) IN
       /\ habits' = r.habits
       /\ file' = r.file
       /\ call' = Called("handle_unmark", name, r, Entry(habits, name), {})
    /\ UNCHANGED <<clock, marked, app>>

HandleDelete(name, yes) ==
    /\ app = "on"
    /\ name \in draw_cards(habits)
    /\ LET r == handle_delete(habits, file, name, yes) IN
       /\ habits' = r.habits
       /\ file' = r.file
       /\ call' = Called("handle_delete", name, r, Entry(habits, name), {})
    /\ UNCHANGED <<clock, marked, app>>

\* midnight: the wall-clock date moves to the next day
Tick ==
    /\ clock < fromisoformat(FirstDay) + MaxDay
    /\ clock' = clock + 1
    /\ UNCHANGED <<habits, file, call, marked, app>>

----------------------------------------------------------------------------
(* ShellSpec: the application and its user, at a location with no          *)
(* document at first. The user types the texts of AddTexts, uses the card  *)
(* of the first starter habit, resets, leaves and starts the application   *)
(* again, while the days of the window pass.                               *)

\* the texts typed in the entry
AddTexts == {<<" ">>, DEFAULT_HABITS[1], Hidden, META}

\* the cards the user presses the buttons of
CardNames == {DEFAULT_HABITS[1]}

ShellInit ==
    /\ habits = EmptyDict
    /\ file = NoFile
    /\ clock = fromisoformat(FirstDay)
    /\ call = NoCall
    /\ marked = NoHistory
    /\ app = "off"

ShellNext ==
    \/ Startup
    \/ \E text \in AddTexts : OnAdd(text)
    \/ \E name \in CardNames : HandleMarkDone(name)
    \/ \E name \in CardNames : HandleUnmark(name)
    \/ \E name \in CardNames, yes \in BOOLEAN : HandleDelete(name, yes)
    \/ OnResetDaily
    \/ OnSaveExit
    \/ Tick

ShellSpec == ShellInit /\ [][ShellNext]_vars

----------------------------------------------------------------------------
(* Properties. Each is stated of the engine's functions applied to the     *)
(* store of a reachable state, for every name and date of the inputs.      *)

\* every name a call can be made with, and the reserved key
Names == AddNames \cup KeyNames \cup {META}

\* the record add_habit creates
FreshRecord == PyDict([done |-> FALSE, streak |-> 0, last_done |-> None])

IsRecord(v) == v # None /\ v.type = "dict"

\* the last_done of a record, None when it has none
LastDone(v) == Get(v.items, "last_done", None)

\* the date the call uses for its `today`
Effective(today) == IF today = None THEN isoformat(clock) ELSE today

\* mark_done on the k days from `day` on, one call a day
RECURSIVE MarkOnDays(_, _, _, _)
MarkOnDays(hs, name, day, k) ==
    IF k = 0 THEN hs
    ELSE MarkOnDays(mark_done(hs, name, day, clock).habits, name, NextDate(day), k - 1)

\* C1: when the last_done of an existing habit is the day before d,
\* MarkDone(h, d) adds exactly 1 to its streak and sets done = true and
\* last_done = d; and on a freshly added habit, n MarkDone calls on n
\* consecutive days leave streak = n and last_done = the last of the days.
C1_NextDayIncrements ==
    /\ \A n \in DOMAIN habits, d \in IsoDates :
          LET e == habits[n]
              r == mark_done(habits, n, d, clock)
          IN (IsRecord(e) /\ Truthy(LastDone(e)) /\ NextDate(LastDone(e)) = d)
             => /\ r.raised = "None"
                /\ r.habits[n].items.streak = e.items.streak + 1
                /\ r.habits[n].items.done = TRUE
                /\ r.habits[n].items.last_done = d
    /\ \A n \in DOMAIN habits, d \in IsoDates, k \in 1..(MaxDay + 1) :
          (habits[n] = FreshRecord /\ DateAfter(d, k - 1) \in IsoDates)
          => LET e == MarkOnDays(habits, n, d, k)[n]
             IN /\ e.items.streak = k
                /\ e.items.last_done = DateAfter(d, k - 1)
                /\ e.items.done = TRUE

\* a MarkDone has just added 1 to a streak: the habit was last done the day before
C1_Witness ==
    /\ call.op = "mark_done" /\ call.raised = "None"
    /\ IsRecord(call.entry) /\ Truthy(LastDone(call.entry))
    /\ habits[call.name].items.last_done = NextDate(LastDone(call.entry))
    /\ call.entry.items.streak >= 1
    /\ habits[call.name].items.streak = call.entry.items.streak + 1

\* C2: when the last_done of an existing habit is absent, or a date other
\* than d and the day before d (earlier by two days or more, or later than
\* d), MarkDone(h, d) is not rejected and sets streak = 1, done = true and
\* last_done = d, whatever the streak was.
C2_GapResetsStreak ==
    \A n \in DOMAIN habits, d \in IsoDates :
        LET e == habits[n]
            r == mark_done(habits, n, d, clock)
        IN (/\ IsRecord(e)
            /\ \/ ~Truthy(LastDone(e))
               \/ LastDone(e) # d /\ NextDate(LastDone(e)) # d)
           => /\ r.raised = "None"
              /\ r.habits[n].items.streak = 1
              /\ r.habits[n].items.done = TRUE
              /\ r.habits[n].items.last_done = d

\* a MarkDone has just reset a streak of 2 or more to 1, on a date before the last_done
C2_Witness ==
    /\ call.op = "mark_done" /\ call.raised = "None"
    /\ IsRecord(call.entry) /\ Truthy(LastDone(call.entry))
    /\ call.entry.items.streak >= 2
    /\ fromisoformat(habits[call.name].items.last_done) < fromisoformat(LastDone(call.entry))
    /\ habits[call.name].items.streak = 1

\* C3: MarkDone(h, d) applied twice in a row leaves the store as the first
\* application left it, and so does MarkDone(h, d) after MarkDone(h, d) and
\* UnmarkHabit(h) (the streak is not incremented again, done = true,
\* last_done = d).
C3_SameDayIdempotent ==
    \A n \in DOMAIN habits, d \in IsoDates :
        LET r1 == mark_done(habits, n, d, clock)
            r2 == mark_done(r1.habits, n, d, clock)
            u == unmark_habit(r1.habits, n)
            r3 == mark_done(u.habits, n, d, clock)
        IN r1.raised = "None"
           => /\ r2 = r1
              /\ u.raised = "None" /\ u.habits[n].items.done = FALSE
              /\ r3 = r1
              /\ r1.habits[n].items.done = TRUE
              /\ r1.habits[n].items.last_done = d

\* a MarkDone has just acted on a habit undone since its completion of the same day
C3_Witness ==
    /\ call.op = "mark_done" /\ call.raised = "None"
    /\ IsRecord(call.entry) /\ Truthy(LastDone(call.entry))
    /\ call.entry.items.done = FALSE
    /\ call.entry.items.streak >= 2
    /\ habits[call.name].items.last_done = LastDone(call.entry)
    /\ habits[call.name] = PyDict(Put(call.entry.items, "done", TRUE))

\* the last_reset of the store, None when it has none
LastReset(hs) ==
    IF META \in DOMAIN hs /\ hs[META].type = "dict"
    THEN Get(hs[META].items, "last_reset", None)
    ELSE None

\* C4: whenever _meta.last_reset = today, ResetDaily(store, today) changes
\* nothing, habits marked done since the reset included; and ResetDaily
\* called twice with the same date changes nothing the second time.
C4_ResetIdempotent ==
    \A today \in TodayInputs :
        LET r1 == reset_daily(habits, today, clock)
            r2 == reset_daily(r1.habits, today, clock)
        IN /\ LastReset(habits) = Effective(today) => r1 = Return(habits)
           /\ r1.raised = "None" => r2 = r1

\* a ResetDaily has just met its guard in a store with done flags set
C4_Witness ==
    /\ call.op = "reset_daily" /\ call.raised = "None"
    /\ call.entry # None /\ call.entry = habits[META]
    /\ call.flags # {} /\ call.flags = DoneKeys(habits)

\* C5: when _meta.last_reset differs from today, or _meta is absent,
\* ResetDaily(store, today) sets done = false on every record but _meta, sets
\* _meta.last_reset = today and leaves every record's streak and last_done
\* and the set of habit names as they were.
C5_ResetClearsDone ==
    \A today \in TodayInputs :
        LET r == reset_daily(habits, today, clock) IN
        (META \notin DOMAIN habits \/ LastReset(habits) # Effective(today))
        => /\ r.raised = "None"
           /\ r.habits[META] = PyDict([last_reset |-> Effective(today)])
           /\ DOMAIN r.habits \ {META} = DOMAIN habits \ {META}
           /\ \A k \in DOMAIN habits \ {META} :
                 /\ r.habits[k].items.done = FALSE
                 /\ r.habits[k] = PyDict(Put(habits[k].items, "done", FALSE))
                 /\ r.habits[k].items.streak = habits[k].items.streak
                 /\ r.habits[k].items.last_done = habits[k].items.last_done

\* a ResetDaily has just cleared the done flags of two habits
C5_Witness ==
    /\ call.op = "reset_daily" /\ call.raised = "None"
    /\ Cardinality(call.flags) >= 2
    /\ DoneKeys(habits) = {}
    /\ call.entry # None /\ call.entry # habits[META]
    /\ \E k \in call.flags : habits[k].items.streak >= 2

\* C6: MarkDone, UnmarkHabit and DeleteHabit with a name that is no key of
\* the store raise KeyError (NotFound) and leave the store as it was.
C6_UnknownNameRejected ==
    \A n \in Names \ DOMAIN habits :
        /\ \A today \in TodayInputs :
              mark_done(habits, n, today, clock) = Raise("KeyError", habits)
        /\ unmark_habit(habits, n) = Raise("KeyError", habits)
        /\ delete_habit(habits, n) = Raise("KeyError", habits)

\* a MarkDone with a name that is no key of a store of two habits has just failed
C6_Witness ==
    /\ call.op = "mark_done" /\ call.raised = "KeyError"
    /\ call.entry = None /\ call.name \notin DOMAIN habits
    /\ Cardinality(DOMAIN habits) >= 2

\* C7: AddHabit raises ValueError (InvalidArgument) and leaves the store as
\* it was whenever the name is empty after trimming or the trimmed name is a
\* key of the store: the record of an existing habit is never overwritten.
C7_AddRejected ==
    \A n \in Names :
        (strip(n) = <<>> \/ strip(n) \in DOMAIN habits)
        => add_habit(habits, n) = Raise("ValueError", habits)

\* an AddHabit of the name of a habit with a streak has just failed
C7_Witness ==
    /\ call.op = "add_habit" /\ call.raised = "ValueError"
    /\ IsRecord(call.entry) /\ call.entry.items.streak >= 2
    /\ habits[strip(call.name)] = call.entry

\* C8 as amended: for every name that is not empty after trimming and whose
\* trimmed form is no key of the store, AddHabit succeeds and the store then
\* holds, under the trimmed name, a record with done = false, streak = 0 and
\* last_done absent; every other entry is as it was.
C8_AddCreatesFresh ==
    \A n \in Names :
        LET r == add_habit(habits, n) IN
        (strip(n) # <<>> /\ strip(n) \notin DOMAIN habits)
        => /\ r.raised = "None"
           /\ DOMAIN r.habits = DOMAIN habits \cup {strip(n)}
           /\ r.habits[strip(n)] = FreshRecord
           /\ \A k \in DOMAIN habits : r.habits[k] = habits[k]

\* an AddHabit of a name with whitespace around it has just added a habit to a store with one
C8_Witness ==
    /\ call.op = "add_habit" /\ call.raised = "None" /\ call.entry = None
    /\ strip(call.name) # call.name
    /\ habits[strip(call.name)] = FreshRecord
    /\ \E k \in DOMAIN habits : IsRecord(habits[k]) /\ Get(habits[k].items, "streak", 0) >= 1

\* C8 as claimed: a lookup of the name as given to AddHabit finds the new record.
C8_Original ==
    \A n \in Names :
        LET r == add_habit(habits, n) IN
        (strip(n) # <<>> /\ n \notin DOMAIN habits)
        => /\ r.raised = "None"
           /\ n \in DOMAIN r.habits
           /\ r.habits[n] = FreshRecord


\* the documented shape of a value of the persisted object under key k
WellFormedValue(k, jv) ==
    /\ jv.j = "object"
    /\ IF k = META
       THEN /\ Keys(jv.members) = {"last_reset"}
            /\ Member(jv.members, "last_reset").j = "string"
       ELSE /\ Keys(jv.members) = {"done", "streak", "last_done"}
            /\ Member(jv.members, "done").j \in {"true", "false"}
            /\ Member(jv.members, "streak").j = "number"
            /\ Member(jv.members, "last_done").j \in {"string", "null"}

\* the documented shape of the persisted document
WellFormedDocument(f) ==
    /\ f.exists
    /\ f.text.j = "object"
    /\ \A k \in Keys(f.text.members) : WellFormedValue(k, Member(f.text.members, k))

C10_RoundTrip ==
    /\ load_habits(save_habits(habits)) = Loaded(habits)
    /\ WellFormedDocument(save_habits(habits)) =>
          \A k \in DOMAIN habits :
              load_habits(save_habits(habits)).value[k].items = habits[k].items

\* a Load has just returned the store a Save wrote: a habit with a streak, and _meta
C10_Witness ==
    /\ call.op = "load_habits" /\ call.raised = "None"
    /\ file = save_habits(habits)
    /\ WellFormedDocument(file)
    /\ LastReset(habits) # None
    /\ \E k \in DOMAIN habits \ {META} :
           habits[k].items.streak >= 2 /\ habits[k].items.done

\* C11: EnsureDefaults adds the starter habits (each with done = false,
\* streak = 0, last_done absent) and sets _meta.last_reset to the current
\* date if and only if the store has no entry other than _meta; a store with
\* an entry other than _meta is left as it was; and EnsureDefaults applied
\* twice gives what one application gives.
C11_SeedsOnlyEmptyStore ==
    LET r == ensure_defaults(habits, clock) IN
    /\ r.raised = "None"
    /\ IF DOMAIN habits \ {META} = {}
       THEN /\ \A i \in 1..Len(DEFAULT_HABITS) : r.habits[DEFAULT_HABITS[i]] = FreshRecord
            /\ r.habits[META] = PyDict([last_reset |-> isoformat(clock)])
       ELSE r.habits = habits
    /\ ensure_defaults(r.habits, clock).habits = r.habits

\* C12: no operation of the engine (AddHabit, MarkDone, UnmarkHabit,
\* DeleteHabit, ResetDaily, EnsureDefaults) writes the persisted document:
\* the document changes only in a call of Save.
C12_EngineDoesNoIO ==
    [][call'.op # "save_habits" => file' = file]_vars

\* C13: UnmarkHabit on an existing habit sets done = false and leaves the
\* streak and the last_done of that habit, and every other entry of the
\* store, as they were; so after MarkDone(h, d) and UnmarkHabit(h) the habit
\* has the streak and the last_done the MarkDone gave it, not those it had
\* before, and a MarkDone(h, d + 1) after them adds 1 to that streak.
C13_UnmarkKeepsStreak ==
    \A n \in DOMAIN habits \ {META} :
        LET u == unmark_habit(habits, n) IN
        /\ u.raised = "None"
        /\ DOMAIN u.habits = DOMAIN habits
        /\ u.habits[n].items.done = FALSE
        /\ u.habits[n].items.streak = habits[n].items.streak
        /\ u.habits[n].items.last_done = habits[n].items.last_done
        /\ \A k \in DOMAIN habits \ {n} : u.habits[k] = habits[k]
        /\ \A d \in IsoDates :
              LET m == mark_done(habits, n, d, clock)
                  um == unmark_habit(m.habits, n)
                  m2 == mark_done(um.habits, n, NextDate(d), clock)
              IN /\ um.raised = "None"
                 /\ um.habits[n].items.done = FALSE
                 /\ um.habits[n].items.streak = m.habits[n].items.streak
                 /\ um.habits[n].items.last_done = d
                 /\ m2.habits[n].items.streak = m.habits[n].items.streak + 1

\* an UnmarkHabit has just cleared the done flag of a habit with a streak of 2 or more, in a store of two habits
C13_Witness ==
    /\ call.op = "unmark_habit" /\ call.raised = "None"
    /\ IsRecord(call.entry) /\ call.entry.items.done = TRUE
    /\ call.entry.items.streak >= 2
    /\ habits[call.name].items.done = FALSE
    /\ habits[call.name].items.streak = call.entry.items.streak
    /\ habits[call.name].items.last_done = call.entry.items.last_done
    /\ Cardinality(DOMAIN habits \ {META}) >= 2

\* C14: in the shell, the startup (Load, EnsureDefaults, ResetDaily, Save)
\* and every user action (add, mark done, undo, delete, reset daily), those
\* rejected with an error included, end with the persisted document equal
\* to the store in memory: Load of the location returns the live store.
C14_DocumentIsStore ==
    app = "on" => /\ file = save_habits(habits)
                  /\ load_habits(file) = Loaded(habits)

\* an add has just been rejected as a duplicate, in a store with a completed habit and one added by hand
C14_Witness ==
    /\ app = "on"
    /\ call.op = "on_add" /\ call.raised = "ValueError"
    /\ call.entry # None /\ habits[strip(call.name)] = call.entry
    /\ DoneKeys(habits) # {}
    /\ Hidden \in DOMAIN habits
    /\ load_habits(file).value = habits

\* C15: in every store reached from the empty one by AddHabit, MarkDone,
\* UnmarkHabit, DeleteHabit, ResetDaily and EnsureDefaults, every habit
\* record has streak >= 0; its streak is 0 exactly when the habit was never
\* completed (last_done absent and done = false); and a record with a
\* last_done has streak >= 1.
C15_StreakSign ==
    \A k \in DOMAIN habits :
        LET e == habits[k].items IN
        /\ k # META => DOMAIN e = {"done", "streak", "last_done"}
        /\ "streak" \in DOMAIN e =>
              /\ e.streak >= 0
              /\ e.streak = 0 <=> (e.last_done = None /\ e.done = FALSE)
              /\ e.last_done # None => e.streak >= 1

\* a seeded store with a habit never completed and a habit with a streak of 2 or more that is not done
C15_Witness ==
    /\ \A i \in 1..Len(DEFAULT_HABITS) : DEFAULT_HABITS[i] \in DOMAIN habits
    /\ \E k \in DOMAIN habits \ {META} :
           habits[k].items.streak = 0 /\ habits[k].items.last_done = None
    /\ \E k \in DOMAIN habits \ {META} :
           /\ habits[k].items.streak >= 2
           /\ habits[k].items.done = FALSE
           /\ habits[k].items.last_done # None

\* the number of consecutive days of S that end at and include day d
RECURSIVE Run(_, _)
Run(S, d) == IF d \in S THEN 1 + Run(S, d - 1) ELSE 0

\* C16: after any sequence of AddHabit, MarkDone, UnmarkHabit and ResetDaily
\* in which the dates of the MarkDone calls never decrease, the streak of
\* each record is the number of consecutive calendar days, ending at and
\* including its last_done, on which MarkDone was applied to the habit
\* since it was added (0, with no last_done, when there is no such day).
C16_StreakIsRun ==
    /\ DOMAIN marked.days = DOMAIN habits \ {META}
    /\ \A k \in DOMAIN marked.days :
          LET e == habits[k].items
              S == marked.days[k]
          IN IF S = {} THEN e.streak = 0 /\ e.last_done = None
             ELSE /\ fromisoformat(e.last_done) \in S
                  /\ \A d \in S : d <= fromisoformat(e.last_done)
                  /\ e.streak = Run(S, fromisoformat(e.last_done))

\* a habit completed on two days with a day between them on which it was not, and since undone
C16_Witness ==
    \E k \in DOMAIN marked.days :
        /\ Cardinality(marked.days[k]) = 2
        /\ \E d \in marked.days[k] : (d + 2) \in marked.days[k]
        /\ habits[k].items.streak = 1
        /\ habits[k].items.done = FALSE
        /\ \E j \in DOMAIN marked.days : j # k /\ habits[j].items.streak = 1

\* C17: in a session of the shell (the startup, then user actions, the
\* wall-clock date staying or advancing), in every state between two user
\* actions a record with done = true has last_done equal to the current
\* calendar date.
C17_DoneMeansDoneToday ==
    app = "on" =>
        \A k \in DoneKeys(habits) : LastDone(habits[k]) = isoformat(clock)

\* C18: the names the listing of the shell shows are exactly the keys of
\* the store other than _meta: _meta is never listed, and every habit that
\* AddHabit accepted, whatever its name, is listed (and so reachable by the
\* mark-done, undo and delete actions).
C18_ListingIsAllHabits ==
    app = "on" => draw_cards(habits) = DOMAIN habits \ {META}

\* C19: the _meta entry is changed by ResetDaily and EnsureDefaults only:
\* AddHabit, MarkDone, UnmarkHabit and DeleteHabit, called with any name
\* ("_meta" included), never create, modify or remove it.
C19_MetaOnlyByReset ==
    \A n \in Names \cup SeedAddNames :
        /\ Entry(add_habit(habits, n).habits, META) = Entry(habits, META)
        /\ \A today \in TodayInputs :
              Entry(mark_done(habits, n, today, clock).habits, META) = Entry(habits, META)
        /\ Entry(unmark_habit(habits, n).habits, META) = Entry(habits, META)
        /\ Entry(delete_habit(habits, n).habits, META) = Entry(habits, META)

\* C20: in a session of the shell started with no persisted document, the
\* wall-clock date never going back and MarkDone using the current date, in
\* every state where _meta.last_reset is the current date every record with
\* done = true has last_done equal to the current date.
C20_ResetLeavesNoStaleDone ==
    LastReset(habits) = isoformat(clock) =>
        \A k \in DoneKeys(habits) : LastDone(habits[k]) = isoformat(clock)

\* a start of the application on a later day has just cleared the done flag of the day before
C20_Witness ==
    /\ app = "on"
    /\ call.op = "startup" /\ call.raised = "None" /\ call.flags # {}
    /\ LastReset(habits) = isoformat(clock)
    /\ DoneKeys(habits) = {}
    /\ \E k \in call.flags : fromisoformat(LastDone(habits[k])) < clock

============================================================================
